---- MODULE Spec2Model ----
(***************************************************************************)
(* A model of the harvesters of the Scrapex repository:                    *)
(*   - Scripts/Semantic_Scrapex.py: exponential_backoff_sleep,             *)
(*     fetch_paper_ids, fetch_metadata_batch and main;                     *)
(*   - Scripts/arXivTest.py: ArxivScraper.fetch_year, add_papers, scrape;  *)
(*   - Scripts/Scrapex.py: GoogleScholarScraperRequests.fetch_page, scrape.*)
(* One run executes one of the three scripts (the variable script).  The   *)
(* remote services are the environment: every response is chosen by \E.    *)
(***************************************************************************)
EXTENDS Integers, Sequences, FiniteSets, Bags, TLC

(***************************************************************************)
(* Bounds of the model.                                                    *)
(***************************************************************************)
MaxRetries == 3        \* max_retries is drawn from 0..MaxRetries
MaxLimit == 2          \* total_limit_per_query is drawn from 0..MaxLimit
MaxId == 2             \* paper ids are 1..MaxId
MaxToken == 1          \* continuation tokens are 1..MaxToken; 0 is None
NJobs == 2             \* year jobs (generate_year_queries makes 11)
MaxWorkers == 2        \* max_workers is drawn from 1..MaxWorkers
MaxScrapes == 2        \* scrape is called at most MaxScrapes times on one scraper
NFetchers == 2         \* calls of fetch that run at the same time
MaxResults == 2        \* max_results is drawn from 1..MaxResults
MaxFeed == 3           \* a finite feed holds at most MaxFeed entries
MaxPagesArg == 3       \* max_pages is drawn from 0..MaxPagesArg
MaxPaper == 2          \* the results of Google Scholar are 1..MaxPaper
MaxAttempt == 8        \* attempts given to the backoff function alone
MaxBase == 3           \* base_delay given to the backoff function alone
MaxCap == 4            \* max_delay given to the backoff function alone
NCallers == 3          \* threads calling add_papers at the same time
MaxArgs == 2           \* a call of add_papers brings at most MaxArgs papers

(***************************************************************************)
(* Program constants.                                                      *)
(***************************************************************************)
DefaultMaxDelay == 60  \* exponential_backoff_sleep(..., max_delay=60)

\* fetch_metadata_batch sets batch_size = 100; the model scales it down so that
\* MaxId ids fill more than one batch
BatchSize == 1

\* fetch_year sets batch_size = 100, scaled down in the same way
PageSize == 2

\* a page of Google Scholar has 10 results (fetch_page: start = page_number * 10),
\* scaled down in the same way
ResultsPerPage == 2

\* The value of --initial_delay tried: one that reaches the cap of the backoff at
\* the third attempt (25, 50, 60)
InitialDelays == {25}

\* The numbers of queries tried: one, and two so that a later query meets the ids
\* of an earlier one
QueryCounts == {1, 2}

Ids == 1..MaxId
Tokens == 0..MaxToken
None == 0

Min(a, b) == IF a <= b THEN a ELSE b

VARIABLES
    script,                \* which script this run executes
    \* ---- Semantic_Scrapex.py: main
    max_retries,           \* args.max_retries
    total_limit_per_query, \* args.total_per_query
    initial_delay,         \* args.initial_delay
    nQueries,              \* len(queries)
    qi,                    \* index of the query being processed, 1..nQueries
    all_unique_paper_ids,  \* main: the set of ids of all queries (a bag, see PySetUpdate)
    current_query_ids,     \* main: what the last fetch_paper_ids returned
    spc,                   \* position of the script
    \* ---- fetch_paper_ids
    query_ids,             \* the set of ids of this query (a bag, see PySetUpdate)
    next_token,            \* continuation token, None = 0
    attempt,               \* attempt counter of the current page
    ids_page,              \* the ids of the last page answered with success
    new_ids_count,         \* line 94: how many of them were new to the query
    firstPage,             \* history: no page of this query was answered before this one
    ok_token,              \* history: "next" of the last successful response of this
                           \* query, None when it had none
    sent_ok_token,         \* history: params["token"] of the last request was ok_token
                           \* as it was then (no token when ok_token was None)
    repeats,               \* history: how many pages in a row brought the ids of the page
                           \* before and a token, counted modulo 2
    fend,                  \* how the last fetch_paper_ids left its loops
    pageKinds,             \* history: the kinds of response the current page has had
    pageReqs,              \* history: the number of requests made for the current page
    sleeps,                \* history: sleeps since the first request of the current page
    \* ---- fetch_metadata_batch (its attempt, and the two histories, are the ones above)
    paper_ids_list,        \* list(paper_ids)
    bi,                    \* index i of the batch being processed, from 0
    all_metadata,          \* ids of the papers whose metadata was appended
    skipped,               \* history: the batches given up without a success
    \* ---- arXivTest.py: ArxivScraper
    max_results,           \* self.max_results
    max_workers,           \* self.max_workers
    endless,               \* the feeds return full pages of new entries for ever
    fstate,                \* per year job, the state of its future
    jpc,                   \* per year job, the position of fetch_year
    start,                 \* per year job, fetch_year's start
    year_papers,           \* per year job, fetch_year's year_papers
    yielded,               \* the futures as_completed has handed to the loop
    total_papers,          \* scrape's total_papers
    collected,             \* self.collected
    apc,                   \* position of scrape
    cancel_f,              \* the future the loop of line 180 is at
    taken,                 \* the year jobs whose work item a worker thread has taken
                           \* off the queue and not yet begun to run
    scrapes,               \* history: the number of calls of scrape
    fetch_stores,          \* the values that the calls of fetch now between the read
                           \* of self.max_results and its assignment (line 58) are
                           \* about to assign, as a bag
    inflight,              \* history: the year jobs running when the target was reached
    offsets,               \* history: per year job, the values of start it has requested
    feed_status,           \* per year job, feed.status of its last request, None = 0
    \* ---- Scrapex.py: GoogleScholarScraperRequests
    max_pages,             \* self.max_pages
    page_number,           \* scrape's loop variable
    collected_papers,      \* self.collected_papers
    page_papers,           \* scrape's page_papers: what the last fetch_page returned
    fetches,               \* history: the pages fetch_page was called for, and whether
                           \* each call got a response with status 200
    in_main,               \* scrape is called by main (or else by another caller)
    serpapi_key,           \* scrape's argument serpapi_key; in main, line 273
    use_serpapi,           \* scrape's argument use_serpapi; in main, line 274
    request_count,         \* REQUEST_COUNT: per label, the number of inc()
    duration_count,        \* REQUEST_DURATION: the number of observe()
    serve_sleeps,          \* history: the number of time.sleep(10) of main's last loop,
                           \* counted modulo 2
    gpc,                   \* position of main and scrape
    \* ---- exponential_backoff_sleep, called on its own
    bAttempt, bBase, bMax, bDelay, bPrev,
    \* ---- ArxivScraper.add_papers, called from several threads
    lock,                  \* self._lock: the caller holding it, None = 0
    cargs,                 \* per caller, the argument papers
    cpc,                   \* per caller, the position in add_papers
    cpos,                  \* per caller, how many papers extend has appended
    \* ---- the filters of Semantic_Scrapex.py applied to the items of a response
    rdata,                 \* fetch_paper_ids: the "data" of a search response
    rids,                  \* fetch_paper_ids: query_ids after line 95
    rpapers,               \* fetch_metadata_batch: the papers of a batch response
    rvalid                 \* fetch_metadata_batch: valid_papers of line 173

semVars == <<max_retries, total_limit_per_query, initial_delay, nQueries, qi,
             all_unique_paper_ids, current_query_ids, spc,
             query_ids, next_token, attempt, ids_page, new_ids_count, firstPage,
             ok_token, sent_ok_token, repeats, fend,
             pageKinds, pageReqs, sleeps,
             paper_ids_list, bi, all_metadata, skipped>>
metaVars == <<paper_ids_list, bi, all_metadata, skipped>>
boVars == <<bAttempt, bBase, bMax, bDelay, bPrev>>
addVars == <<lock, cargs, cpc, cpos>>
recVars == <<rdata, rids, rpapers, rvalid>>
arxVars == <<max_results, max_workers, endless, fstate, jpc, start, year_papers,
             yielded, total_papers, collected, apc, cancel_f, taken, scrapes,
             fetch_stores, inflight, offsets, feed_status>>
gsVars == <<max_pages, page_number, collected_papers, page_papers, fetches,
            in_main, serpapi_key, use_serpapi, request_count, duration_count,
            serve_sleeps, gpc>>
vars == <<script, semVars, arxVars, gsVars, boVars, addVars, recVars>>

(***************************************************************************)
(* Python sets.  A set is modelled as a bag whose elements have one copy:  *)
(* the operators below are what keeps it so.                               *)
(***************************************************************************)
PySet == EmptyBag                      \* set()
PyLen(s) == BagCardinality(s)          \* len(s)

\* s.update(t), t a set of elements
PySetUpdateExtend(s, t) == s (+) SetToBag(t)
PySetUpdate(s, t) == SetToBag(BagToSet(s) \cup t)

\* A paper of a page is modelled by its "paperId": NoKey when it has no such key,
\* None when the value of the key is null, Empty when it is the empty string
NoKey == -1
Empty == -2

\* line 88: ids_page = {paper["paperId"] for paper in data if "paperId" in paper}
IdsPage(data) == {paper \in data : paper # NoKey}

\* line 129: set(list(query_ids)[:total_limit_per_query]); the order in which list()
\* walks a set is not defined by the language, so every choice of n elements is possible
TruncationsKeepAll(s, n) == {s}
TruncationsDiscardPartial(s, n) ==
    IF PyLen(s) < n THEN {PySet}
    ELSE {SetToBag(S) : S \in {T \in SUBSET BagToSet(s) : Cardinality(T) = n}}
Truncations(s, n) ==
    {SetToBag(S) : S \in {T \in SUBSET BagToSet(s) :
                              Cardinality(T) = Min(n, Cardinality(BagToSet(s)))}}

(***************************************************************************)
(* exponential_backoff_sleep: the delay it sleeps for.                     *)
(***************************************************************************)
BackoffDelayNoCap(att, base_delay, max_delay) == base_delay * 2^(att - 1)
BackoffDelayEarly(att, base_delay, max_delay) == Min(max_delay, base_delay * 2^att)
BackoffDelay(att, base_delay, max_delay) == Min(max_delay, base_delay * 2^(att - 1))

\* the two call sites pass (attempt, initial_delay) and leave max_delay at its default
BackoffSleep(att) ==
    [kind |-> "backoff", dur |-> BackoffDelay(att, initial_delay, DefaultMaxDelay)]
PaceSleep == [kind |-> "pace", dur |-> initial_delay]      \* time.sleep(initial_delay)

(***************************************************************************)
(* The responses of the bulk search endpoint.                              *)
(*   rate_limited: status 429                                              *)
(*   transient:    no response (network failure) or a 5xx status           *)
(*   fatal:        a 4xx status other than 429                             *)
(*   ok:           a 2xx status with "data" and, perhaps, "next"           *)
(***************************************************************************)
SearchResponses ==
    [kind : {"rate_limited", "transient", "fatal"}, data : {{}}, next : {None}]
    \cup [kind : {"ok"}, data : SUBSET (Ids \cup {NoKey}), next : Tokens]

\* raise_for_status() raises HTTPError, a RequestException, for 4xx and for 5xx alike;
\* a network failure is a RequestException too
RaisesRequestException(kind) == kind \in {"transient", "fatal"}

(***************************************************************************)
(* fetch_paper_ids                                                          *)
(***************************************************************************)
\* lines 120-125 and the test of the outer loop: where control goes once the
\* inner loop is left with these values
AfterInnerNoTarget(att, ids, tok) ==
    IF att = max_retries /\ PyLen(ids) < total_limit_per_query THEN "abandoned"
    ELSE IF tok = None /\ PyLen(ids) < total_limit_per_query THEN "exhausted"
    ELSE "again"
AfterInner(att, ids, tok) ==
    IF att = max_retries /\ PyLen(ids) < total_limit_per_query THEN "abandoned"
    ELSE IF tok = None /\ PyLen(ids) < total_limit_per_query THEN "exhausted"
    ELSE IF PyLen(ids) < total_limit_per_query THEN "again"
    ELSE "target"

\* line 63: while attempt < max_retries
InnerLoopTestAlways(att) == TRUE
InnerLoopTest(att) == att < max_retries

\* line 113: if attempt < max_retries, in the handler of RequestException
RetryAllowedOneLess(att) == att + 1 < max_retries
RetryAllowed(att) == att < max_retries

\* line 107: if not next_token, after the pause that follows a merged page
EndOfResultsNever(tok) == FALSE
EndOfResults(tok) == tok = None

\* lines 70-71: if next_token: params["token"] = next_token
RequestTokenNone(tok) == None
RequestToken(tok) == tok

\* One pass of the inner loop (lines 64-118) on the response resp: the new values of
\* the locals, the sleeps made, and whether the inner loop goes on (it goes on
\* after "continue" or a fall through when attempt < max_retries still holds).
InnerPass(resp) ==
    LET a == attempt + 1
        retry == [attempt |-> a, query_ids |-> query_ids, next_token |-> next_token,
                  ids_page |-> ids_page, new_ids_count |-> new_ids_count,
                  slept |-> <<BackoffSleep(a)>>,
                  goes_on |-> InnerLoopTest(a)]
    IN  IF resp.kind = "rate_limited" THEN retry                       \* lines 78-81
        ELSE IF RaisesRequestException(resp.kind) THEN                 \* lines 111-118
            IF RetryAllowed(a) THEN retry
            ELSE [retry EXCEPT !.slept = <<>>, !.goes_on = FALSE]
        ELSE                                                           \* lines 84-109
            LET page == IdsPage(resp.data)
                merged == PySetUpdate(query_ids, page)
                got == [attempt |-> a, query_ids |-> merged, next_token |-> resp.next,
                        ids_page |-> page,
                        new_ids_count |-> Cardinality(page \ BagToSet(query_ids)),
                        slept |-> <<>>, goes_on |-> FALSE]
            IN  IF page = {} /\ resp.next = None THEN                  \* lines 90-92
                    [got EXCEPT !.query_ids = query_ids,
                                !.new_ids_count = new_ids_count]
                ELSE IF PyLen(merged) >= total_limit_per_query THEN got \* lines 100-101
                ELSE [got EXCEPT !.attempt = 0, !.slept = <<PaceSleep>>,
                                 !.goes_on = (~EndOfResults(resp.next)
                                              /\ InnerLoopTest(0))]

\* main, line 278: the call of fetch_paper_ids for query qi, up to its first request
CallFetch ==
    /\ script = "semantic" /\ spc = "call"
    /\ query_ids' = PySet
    /\ next_token' = None
    /\ attempt' = 0
    /\ current_query_ids' = PySet     \* not read before line 278 assigns it again
    /\ ids_page' = {} /\ new_ids_count' = 0 /\ firstPage' = TRUE /\ repeats' = 0
    /\ ok_token' = None /\ sent_ok_token' = TRUE
    /\ pageKinds' = {} /\ pageReqs' = 0
    /\ sleeps' = <<>>
    /\ IF 0 < total_limit_per_query /\ InnerLoopTest(0)
       THEN spc' = "request" /\ fend' = "running"
       ELSE spc' = "return" /\ fend' = (IF 0 < total_limit_per_query
                                        THEN AfterInner(0, PySet, None) ELSE "target")
    /\ UNCHANGED <<script, max_retries, total_limit_per_query, initial_delay, nQueries,
                   qi, all_unique_paper_ids, metaVars, arxVars, gsVars, boVars, addVars, recVars>>

\* One request of fetch_paper_ids (line 76) and everything up to the next request
\* or the return statement
Request ==
    /\ script = "semantic" /\ spc = "request"
    /\ \E resp \in SearchResponses :
        LET p == InnerPass(resp)
            after == AfterInner(p.attempt, p.query_ids, p.next_token)
        IN  /\ attempt' = (IF ~p.goes_on /\ after = "again" THEN 0 ELSE p.attempt)
            /\ query_ids' = p.query_ids
            /\ next_token' = p.next_token
            /\ ids_page' = p.ids_page
            /\ new_ids_count' = p.new_ids_count
            /\ firstPage' = (firstPage /\ ~(attempt = 0 /\ "ok" \in pageKinds))
            /\ sent_ok_token' = (RequestToken(next_token) = ok_token)
            /\ ok_token' = (IF resp.kind = "ok" THEN resp.next ELSE ok_token)
            /\ repeats' = (IF /\ resp.kind = "ok" /\ resp.next # None /\ ~firstPage'
                              /\ IdsPage(resp.data) = ids_page
                           THEN (repeats + 1) % 2 ELSE 0)
            /\ pageKinds' = (IF attempt = 0 THEN {} ELSE pageKinds) \cup {resp.kind}
            /\ pageReqs' = (IF attempt = 0 THEN 0 ELSE pageReqs) + 1
            /\ sleeps' = (IF attempt = 0 THEN <<>> ELSE sleeps) \o p.slept
            /\ IF p.goes_on \/ after = "again"
               THEN spc' = "request" /\ fend' = "running"
               ELSE spc' = "return" /\ fend' = after
    /\ UNCHANGED <<script, max_retries, total_limit_per_query, initial_delay, nQueries,
                   qi, all_unique_paper_ids, current_query_ids, metaVars, arxVars,
                   gsVars, boVars, addVars, recVars>>

\* line 129, the return of fetch_paper_ids, and main's lines 284-287
Return ==
    /\ script = "semantic" /\ spc = "return"
    /\ \E res \in Truncations(query_ids, total_limit_per_query) :
        /\ current_query_ids' = res
        /\ all_unique_paper_ids' = PySetUpdate(all_unique_paper_ids, BagToSet(res))
    /\ IF qi < nQueries THEN qi' = qi + 1 /\ spc' = "call"
       ELSE qi' = qi /\ spc' = "meta_call"
    /\ UNCHANGED <<script, max_retries, total_limit_per_query, initial_delay, nQueries,
                   query_ids, next_token, attempt, ids_page, new_ids_count, firstPage,
                   ok_token, sent_ok_token, repeats, fend, pageKinds, pageReqs, sleeps,
                   metaVars, arxVars, gsVars, boVars, addVars, recVars>>

(***************************************************************************)
(* fetch_metadata_batch                                                    *)
(***************************************************************************)
\* list(paper_ids): the elements of the set, each once, in an order the language
\* does not define
PyLists(s) ==
    {l \in [1..Cardinality(BagToSet(s)) -> BagToSet(s)] :
        \A i, j \in DOMAIN l : l[i] = l[j] => i = j}

CeilDiv(n, d) == (n + d - 1) \div d     \* math.ceil(n / d)
TotalBatches == CeilDiv(Len(paper_ids_list), BatchSize)

\* line 148: paper_ids_list[i * batch_size:(i + 1) * batch_size]
Batch(i) ==
    SubSeq(paper_ids_list, i * BatchSize + 1,
           Min((i + 1) * BatchSize, Len(paper_ids_list)))

\* The answers of the batch endpoint to the ids of batch: one entry per id asked
\* for, the paper (its id) or null (0) when the id is not found
BatchResponses(batch) ==
    [kind : {"rate_limited", "transient", "fatal"}, papers : {<<>>}]
    \cup [kind : {"ok"},
          papers : {p \in [DOMAIN batch -> Ids \cup {0}] :
                        \A k \in DOMAIN batch : p[k] \in {0, batch[k]}}]

\* line 173: the entries that are a dict with a paperId that is not null or empty
\* (p is not None and isinstance(p, dict) and p.get("paperId"))
ValidPapers(papers) == SelectSeq(papers, LAMBDA x : x \notin {None, NoKey, Empty})

\* main, lines 287-296: fetch_metadata_batch is called when some id was collected
CallMetadata ==
    /\ script = "semantic" /\ spc = "meta_call"
    /\ attempt' = 0 /\ bi' = 0 /\ pageKinds' = {} /\ pageReqs' = 0 /\ sleeps' = <<>>
    /\ all_metadata' = <<>>
    \* the locals of fetch_paper_ids and of main's loop are dead by now
    /\ query_ids' = PySet /\ next_token' = None /\ fend' = "running"
    /\ current_query_ids' = PySet /\ ids_page' = {} /\ new_ids_count' = 0
    /\ firstPage' = TRUE /\ repeats' = 0 /\ ok_token' = None /\ sent_ok_token' = TRUE
    /\ IF all_unique_paper_ids = PySet
       THEN /\ paper_ids_list' = <<>> /\ skipped' = {} /\ spc' = "done"
       ELSE /\ paper_ids_list' \in PyLists(all_unique_paper_ids)
            /\ IF 0 < max_retries
               THEN skipped' = {} /\ spc' = "batch_request"
               ELSE /\ skipped' = 0..(CeilDiv(PyLen(all_unique_paper_ids), BatchSize) - 1)
                    /\ spc' = "done"
    /\ UNCHANGED <<script, max_retries, total_limit_per_query, initial_delay, nQueries,
                   qi, all_unique_paper_ids, arxVars, gsVars, boVars, addVars, recVars>>

\* One request of fetch_metadata_batch (line 156) and everything up to the next
\* request or the return
BatchRequest ==
    /\ script = "semantic" /\ spc = "batch_request"
    /\ \E resp \in BatchResponses(Batch(bi)) :
        LET a == attempt + 1
            ok == resp.kind = "ok"
            leaves == ok \/ ~(a < max_retries)    \* the test of line 152
        IN  /\ pageKinds' = (IF attempt = 0 THEN {} ELSE pageKinds) \cup {resp.kind}
            /\ pageReqs' = (IF attempt = 0 THEN 0 ELSE pageReqs) + 1
            /\ sleeps' = (IF attempt = 0 THEN <<>> ELSE sleeps) \o
                    (IF ok THEN <<PaceSleep>>                           \* line 195
                     ELSE IF resp.kind = "rate_limited" \/ a < max_retries
                          THEN <<BackoffSleep(a)>>                      \* lines 165, 201
                          ELSE <<>>)
            /\ all_metadata' = all_metadata \o ValidPapers(resp.papers)
            /\ skipped' = (IF leaves /\ ~ok THEN skipped \cup {bi} ELSE skipped)
            /\ attempt' = (IF leaves /\ bi + 1 < TotalBatches THEN 0 ELSE a)
            /\ bi' = (IF leaves THEN bi + 1 ELSE bi)
            /\ spc' = (IF leaves /\ ~(bi + 1 < TotalBatches) THEN "done"
                       ELSE "batch_request")
    /\ UNCHANGED <<script, max_retries, total_limit_per_query, initial_delay, nQueries,
                   qi, all_unique_paper_ids, current_query_ids, query_ids, next_token,
                   ids_page, new_ids_count, firstPage, ok_token, sent_ok_token, repeats,
                   fend, paper_ids_list,
                   arxVars,
                   gsVars, boVars, addVars, recVars>>

(***************************************************************************)
(* exponential_backoff_sleep called on its own with successive attempts.   *)
(***************************************************************************)
Backoff ==
    /\ script = "backoff" /\ bAttempt < MaxAttempt
    /\ bAttempt' = bAttempt + 1
    /\ bPrev' = bDelay
    /\ bDelay' = BackoffDelay(bAttempt + 1, bBase, bMax)
    /\ UNCHANGED <<script, bBase, bMax, semVars, arxVars, gsVars, addVars, recVars>>

(***************************************************************************)
(* arXivTest.py: ArxivScraper.scrape on a ThreadPoolExecutor                *)
(***************************************************************************)
Jobs == 1..NJobs

\* The entries a feed returns are identified by the year job and their rank in
\* the feed of that year: extract_entry keeps entry.id as arxiv_id
Entry(j, k) == <<j, k>>

\* A page: entries of ranks from+1 .. from+n of the feed of job j
Page(j, from, n) == [k \in 1..n |-> Entry(j, from + k)]

Running == {j \in Jobs : fstate[j] = "running"}
Pending == {j \in Jobs : fstate[j] = "pending"}
Completed == {j \in Jobs : fstate[j] \in {"finished", "raised"}}

\* What feedparser.parse can return to fetch, as far as fetch reads it: the status
\* and, when the feed has it, opensearch_totalresults
FetchFeeds ==
    [status : {200, 503}, has_total : BOOLEAN, total : 0..MaxResults]

\* fetch, lines 50-58: self.max_results after the answer feed
FetchMaxResults(mr, feed) ==
    IF feed.status # 200 THEN mr                                     \* lines 50-52
    ELSE IF feed.has_total THEN Min(mr, feed.total)                  \* lines 55-58
    ELSE mr

\* line 56: the answer feed makes fetch assign self.max_results
FetchAssigns(feed) == feed.status = 200 /\ feed.has_total

\* fetch, lines 37-58, called at any time, by the thread that calls scrape or by
\* others, up to NFetchers calls at once: the request and, at line 58, the read of
\* self.max_results and the minimum.  Nothing locks self.max_results, so the other
\* threads run between this read and the assignment.  The entries fetch returns go
\* to the caller, not to self.collected
FetchLoad ==
    /\ script = "arxiv"
    /\ BagCardinality(fetch_stores) < NFetchers
    /\ \E feed \in FetchFeeds :
        fetch_stores' = (IF FetchAssigns(feed)
                         THEN fetch_stores (+) SetToBag({FetchMaxResults(max_results, feed)})
                         ELSE fetch_stores)                           \* lines 50-52, 60
    /\ UNCHANGED <<script, max_results, max_workers, endless, fstate, jpc, start,
                   year_papers, yielded, total_papers, collected, apc, cancel_f, taken,
                   scrapes, inflight, offsets, feed_status, semVars, gsVars, boVars,
                   addVars, recVars>>

\* fetch, line 58: the assignment of the minimum computed from the value read
FetchStore(mr) ==
    /\ script = "arxiv"
    /\ BagIn(mr, fetch_stores)
    /\ max_results' = mr
    /\ fetch_stores' = fetch_stores (-) SetToBag({mr})
    /\ UNCHANGED <<script, max_workers, endless, fstate, jpc, start, year_papers,
                   yielded, total_papers, collected, apc, cancel_f, taken, scrapes,
                   inflight, offsets, feed_status, semVars, gsVars, boVars, addVars,
                   recVars>>

Fetch == FetchLoad \/ \E mr \in 0..MaxResults : FetchStore(mr)

\* scrape is called, on a new scraper or on one whose last scrape has returned:
\* lines 162-167, a new executor with no future yet; self.collected stays
Scrape ==
    /\ script = "arxiv" /\ apc \in {"new", "done"}
    /\ scrapes < MaxScrapes
    /\ scrapes' = scrapes + 1
    /\ fstate' = [j \in Jobs |-> "new"]
    /\ jpc' = [j \in Jobs |-> "request"]
    /\ start' = [j \in Jobs |-> 0]
    /\ year_papers' = [j \in Jobs |-> <<>>]
    /\ yielded' = {} /\ total_papers' = 0 /\ inflight' = {}
    /\ offsets' = [j \in Jobs |-> <<>>]
    /\ feed_status' = [j \in Jobs |-> None]
    /\ cancel_f' = 1 /\ taken' = {}
    /\ apc' = "submit"
    /\ UNCHANGED <<script, max_results, max_workers, endless, collected,
                   fetch_stores, semVars, gsVars, boVars, addVars, recVars>>

\* lines 168-169: executor.submit for the next year job; the worker threads run
\* between two submits.  After the last, the loop over as_completed begins
Submit(j) ==
    /\ script = "arxiv" /\ apc = "submit"
    /\ fstate[j] = "new" /\ \A i \in Jobs : fstate[i] = "new" => j <= i
    /\ fstate' = [fstate EXCEPT ![j] = "pending"]
    /\ apc' = (IF j = NJobs THEN "wait" ELSE apc)
    /\ UNCHANGED <<script, max_results, max_workers, endless, jpc, start, year_papers,
                   yielded, total_papers, collected, cancel_f, taken, scrapes, fetch_stores, inflight,
                   offsets, feed_status, semVars, gsVars, boVars, addVars, recVars>>

\* the work items still in the queue of the executor that a worker will run
Queued == Pending \ taken

\* line 167: ThreadPoolExecutor(max_workers=self.max_workers) has at most
\* max_workers threads, and a thread holds one work item at a time
WorkerFreeAlways == TRUE
WorkerFree == Cardinality(Running \cup taken) < max_workers

\* A worker thread takes the next work item off the queue, which is in submission
\* order (a cancelled item is taken and dropped at once)
TakeJob(j) ==
    /\ script = "arxiv" /\ j \in Queued
    /\ WorkerFree
    /\ \A i \in Queued : j <= i
    /\ taken' = taken \cup {j}
    /\ UNCHANGED <<script, max_results, max_workers, endless, fstate, jpc, start,
                   year_papers, yielded, total_papers, collected, apc, cancel_f,
                   scrapes, fetch_stores, inflight, offsets, feed_status, semVars, gsVars, boVars,
                   addVars, recVars>>

\* The worker begins to run the work item it took: the future is marked running
\* and fetch_year is called, unless the future was cancelled in between, and then
\* the item is dropped
StartJob(j) ==
    /\ script = "arxiv" /\ j \in taken
    /\ taken' = taken \ {j}
    /\ IF fstate[j] = "pending"
       THEN /\ fstate' = [fstate EXCEPT ![j] = "running"]
            /\ jpc' = [jpc EXCEPT ![j] = "request"]
            /\ start' = [start EXCEPT ![j] = 0]
            /\ year_papers' = [year_papers EXCEPT ![j] = <<>>]
            /\ offsets' = [offsets EXCEPT ![j] = <<>>]
            /\ feed_status' = [feed_status EXCEPT ![j] = None]
       ELSE UNCHANGED <<fstate, jpc, start, year_papers, offsets, feed_status>>
    /\ UNCHANGED <<script, max_results, max_workers, endless, yielded, total_papers,
                   collected, apc, cancel_f, scrapes, fetch_stores, inflight, semVars, gsVars, boVars,
                   addVars, recVars>>

\* What feedparser.parse can return for the request at offset start[j]:
\*   status:    200 or another status
\*   n:         the number of entries
\*   drift:     the feed moved by this many entries since the last request (new
\*              submissions push older entries down the descending order)
\*   malformed: an entry lacks an attribute extract_entry reads
Feeds(j) ==
    IF endless
    THEN [status : {200}, n : {PageSize}, drift : {0}, malformed : {FALSE}]
    ELSE \* fetch_year reads the entries only when the status is 200, and none of
         \* them after one that is malformed: such responses are listed once
         [status : {200, 503}, n : {0}, drift : {0}, malformed : {FALSE}]
         \cup [status : {200}, n : {1}, drift : {0}, malformed : {TRUE}]
         \cup [status : {200},
               n : 1..Min(PageSize, MaxFeed - start[j]),
               drift : (IF start[j] > 0 THEN {0, 1} ELSE {0}),
               malformed : {FALSE}]

\* line 156: start += batch_size
NextStartByOne(st) == st + 1
NextStart(st) == st + PageSize

\* fetch_year, lines 141-157: what follows the answer feed, whose entries are
\* entries, to the request of year job j
FetchOutcome(j, feed, entries, saturated) ==
    IF feed.status # 200 \/ feed.n = 0 THEN                          \* lines 141-147
        /\ fstate' = [fstate EXCEPT ![j] = "finished"]
        /\ UNCHANGED <<jpc, start, year_papers>>
    ELSE IF feed.malformed THEN                                      \* line 150 raises
        /\ fstate' = [fstate EXCEPT ![j] = "raised"]
        /\ UNCHANGED <<jpc, start, year_papers>>
    ELSE IF feed.n < PageSize THEN                                   \* lines 153-154
        /\ fstate' = [fstate EXCEPT ![j] = "finished"]
        /\ year_papers' = [year_papers EXCEPT ![j] = @ \o entries]
        /\ UNCHANGED <<jpc, start>>
    ELSE                                                             \* lines 156-157
        \* in an endless feed the model stops counting once start has passed MaxFeed
        /\ jpc' = [jpc EXCEPT ![j] = "delay"]
        /\ start' = [start EXCEPT ![j] = IF saturated THEN @ ELSE NextStart(@)]
        /\ year_papers' = [year_papers EXCEPT
                              ![j] = IF saturated THEN @ ELSE @ \o entries]
        /\ UNCHANGED fstate

\* fetch_year, lines 130-156: one request and what follows it up to random_delay or
\* to the return statement
FetchPage(j) ==
    /\ script = "arxiv" /\ fstate[j] = "running" /\ jpc[j] = "request"
    \* line 132: the offset requested (in an endless feed the model stops counting
    \* once start has passed MaxFeed)
    /\ offsets' = [offsets EXCEPT
                      ![j] = IF endless /\ start[j] >= MaxFeed THEN @
                             ELSE Append(@, start[j])]
    /\ \E feed \in Feeds(j) :
        LET entries == Page(j, start[j] - feed.drift, feed.n)
            saturated == start[j] >= MaxFeed
        IN  /\ feed_status' = [feed_status EXCEPT ![j] = feed.status]  \* line 140
            /\ FetchOutcome(j, feed, entries, saturated)
    /\ UNCHANGED <<script, max_results, max_workers, endless, yielded, total_papers,
                   collected, apc, cancel_f, taken, scrapes, fetch_stores, inflight, semVars, gsVars,
                   boVars, addVars, recVars>>

\* line 157: random_delay() returns
Delay(j) ==
    /\ script = "arxiv" /\ fstate[j] = "running" /\ jpc[j] = "delay"
    /\ jpc' = [jpc EXCEPT ![j] = "request"]
    /\ UNCHANGED <<script, max_results, max_workers, endless, fstate, start,
                   year_papers, yielded, total_papers, collected, apc, cancel_f, taken,
                   scrapes, fetch_stores, inflight, offsets, feed_status, semVars, gsVars, boVars,
                   addVars, recVars>>

\* add_papers, lines 106-109: under the lock, self.collected.extend(papers)
AddPapers(coll, papers) == coll \o papers

\* lines 183-184: the handler logs the exception of the future and the loop over
\* as_completed goes on; y is the futures handed over so far
AfterRaisedCancel(y) == "cancel"
AfterRaised(y) == IF y = Jobs THEN "shutdown" ELSE "wait"

\* scrape, lines 171-184: as_completed hands over a completed future
Collect(j) ==
    /\ script = "arxiv" /\ apc = "wait"
    /\ j \in Completed \ yielded
    /\ yielded' = yielded \cup {j}
    /\ cancel_f' = 1                  \* line 180 starts at the first future
    /\ IF fstate[j] = "raised"
       THEN /\ UNCHANGED <<total_papers, collected, inflight>>       \* lines 183-184
            /\ apc' = AfterRaised(yielded')
       ELSE /\ total_papers' = total_papers + Len(year_papers[j])    \* line 175
            /\ collected' = AddPapers(collected, year_papers[j])     \* line 176
            /\ apc' = (IF total_papers' >= max_results THEN "cancel"  \* line 179
                       ELSE IF yielded' = Jobs THEN "shutdown" ELSE "wait")
            /\ inflight' = (IF total_papers' >= max_results THEN Running ELSE inflight)
    /\ UNCHANGED <<script, max_results, max_workers, endless, fstate, jpc, start,
                   year_papers, taken, scrapes, fetch_stores, offsets, feed_status, semVars, gsVars,
                   boVars, addVars, recVars>>

\* Future.cancel(): a pending future becomes cancelled, any other stays as it is
Cancel(st) == IF st = "pending" THEN "cancelled" ELSE st

\* lines 180-182: one pass of the loop over the futures, in the order of their
\* submission; the worker threads run between two passes.  After the last future,
\* the break of line 182
CancelFutures ==
    /\ script = "arxiv" /\ apc = "cancel"
    /\ fstate' = [fstate EXCEPT ![cancel_f] = Cancel(@)]
    /\ IF cancel_f < NJobs
       THEN cancel_f' = cancel_f + 1 /\ apc' = apc
       ELSE cancel_f' = cancel_f /\ apc' = "shutdown"
    /\ UNCHANGED <<script, max_results, max_workers, endless, jpc, start, year_papers,
                   yielded, total_papers, collected, taken, scrapes, fetch_stores, inflight, offsets,
                   feed_status, semVars, gsVars, boVars, addVars, recVars>>

\* lines 186-188
Trim(coll) == IF Len(coll) > max_results THEN SubSeq(coll, 1, max_results) ELSE coll

\* the end of the with block waits for the running jobs (shutdown(wait=True));
\* then lines 186-192
Finish ==
    /\ script = "arxiv" /\ apc = "shutdown"
    /\ Running = {} /\ Pending = {} /\ taken = {}
    /\ collected' = Trim(collected)
    /\ apc' = "done"
    /\ UNCHANGED <<script, max_results, max_workers, endless, fstate, jpc, start,
                   year_papers, yielded, total_papers, cancel_f, taken, scrapes, fetch_stores, inflight,
                   offsets, feed_status, semVars, gsVars, boVars, addVars, recVars>>

(***************************************************************************)
(* ArxivScraper.add_papers called by several threads at once.  The call of *)
(* list.extend is modelled one paper at a time: whatever makes it one step *)
(* for the other callers has to come from the lock.                        *)
(***************************************************************************)
Callers == 1..NCallers

\* line 108, with self._lock: the lock can be taken
LockFreeAlways == TRUE
LockFree == lock = None

\* line 108: the caller enters the with block
AcquireLock(t) ==
    /\ script = "add_papers" /\ cpc[t] = "call"
    /\ LockFree
    /\ lock' = t
    /\ cpc' = [cpc EXCEPT ![t] = "extend"]
    /\ UNCHANGED <<script, cargs, cpos, semVars, arxVars, gsVars, boVars, recVars>>

\* line 109: self.collected.extend(papers), the next paper
ExtendStep(t) ==
    /\ script = "add_papers" /\ cpc[t] = "extend" /\ cpos[t] < Len(cargs[t])
    /\ collected' = Append(collected, cargs[t][cpos[t] + 1])
    /\ cpos' = [cpos EXCEPT ![t] = @ + 1]
    /\ UNCHANGED <<script, lock, cargs, cpc, semVars, gsVars, boVars,
                   max_results, max_workers, endless, fstate, jpc, start, year_papers,
                   yielded, total_papers, apc, cancel_f, taken, scrapes, fetch_stores, inflight, offsets,
                   feed_status, recVars>>

\* the end of the with block releases the lock; add_papers returns
ReleaseLock(t) ==
    /\ script = "add_papers" /\ cpc[t] = "extend" /\ cpos[t] = Len(cargs[t])
    /\ lock' = None
    /\ cpc' = [cpc EXCEPT ![t] = "done"]
    /\ UNCHANGED <<script, cargs, cpos, semVars, arxVars, gsVars, boVars, recVars>>

AddPapersStep(t) == AcquireLock(t) \/ ExtendStep(t) \/ ReleaseLock(t)

\* __init__, lines 29-30, and the callers with their arguments
InitAddPapers ==
    /\ lock = None
    /\ cargs \in [Callers -> {Page(t, 0, n) : t \in Callers, n \in 0..MaxArgs}]
    /\ \A t \in Callers : \A k \in DOMAIN cargs[t] : cargs[t][k][1] = t
    /\ cpc = [t \in Callers |-> "call"]
    /\ cpos = [t \in Callers |-> 0]

IdleAddPapers ==
    /\ lock = None
    /\ cargs = [t \in Callers |-> <<>>]
    /\ cpc = [t \in Callers |-> "idle"]
    /\ cpos = [t \in Callers |-> 0]

InitArxiv ==
    /\ max_results \in 1..MaxResults
    /\ max_workers \in 1..MaxWorkers
    /\ endless \in BOOLEAN
    /\ fstate = [j \in Jobs |-> "new"]
    /\ jpc = [j \in Jobs |-> "request"]
    /\ start = [j \in Jobs |-> 0]
    /\ year_papers = [j \in Jobs |-> <<>>]
    /\ yielded = {} /\ total_papers = 0 /\ collected = <<>> /\ inflight = {}
    /\ offsets = [j \in Jobs |-> <<>>]
    /\ feed_status = [j \in Jobs |-> None]
    /\ apc = "new" /\ cancel_f = 1 /\ taken = {} /\ scrapes = 0
    /\ fetch_stores = EmptyBag

IdleArxiv ==
    /\ max_results = 1 /\ max_workers = 1 /\ endless = FALSE
    /\ fstate = [j \in Jobs |-> "pending"]
    /\ jpc = [j \in Jobs |-> "request"]
    /\ start = [j \in Jobs |-> 0]
    /\ year_papers = [j \in Jobs |-> <<>>]
    /\ yielded = {} /\ total_papers = 0 /\ collected = <<>> /\ inflight = {}
    /\ offsets = [j \in Jobs |-> <<>>]
    /\ feed_status = [j \in Jobs |-> None]
    /\ apc = "idle" /\ cancel_f = 1 /\ taken = {} /\ scrapes = 0
    /\ fetch_stores = EmptyBag

(***************************************************************************)
(* Scrapex.py: main and GoogleScholarScraperRequests.scrape                 *)
(***************************************************************************)
\* A result is identified by its title and authors
Papers == 1..MaxPaper

SeqsUpTo(S, n) == UNION {[1..k -> S] : k \in 0..n}

\* fetch_page, lines 125-144: [] for a status other than 200 and for a
\* RequestException, the results extract_papers finds in the page otherwise, one
\* for each result block with a title (lines 91-109), the same result as often as
\* the page holds it; extract_papers raises KeyError at line 101 on a title whose
\* link has no href
FetchedPages ==
    [ok : {FALSE}, raises : {FALSE}, papers : {<<>>}]
    \cup [ok : {TRUE}, raises : {TRUE}, papers : {<<>>}]
    \cup [ok : {TRUE}, raises : {FALSE}, papers : SeqsUpTo(Papers, ResultsPerPage)]

\* fetch_page_serpapi, lines 146-171: the same, but every exception is caught at
\* line 169 and [] returned
FetchedPagesSerpapi == {f \in FetchedPages : ~f.raises}

\* REQUEST_COUNT.labels(status=label).inc()
Inc(counter, label) == [counter EXCEPT ![label] = @ + 1]

\* The values of the SerpApi key: None, the empty string, a key
SerpapiKeys == {None, Empty, 1}

\* line 184: if use_serpapi and serpapi_key
SerpapiBranch == use_serpapi /\ serpapi_key \notin {None, Empty}

\* main, lines 269-275: start_http_server raises when the port is taken, and the
\* handler of lines 281-285 makes main return 1; otherwise scrape is called
MainStart ==
    /\ script = "scholar" /\ gpc = "main"
    /\ \E started \in BOOLEAN :
        IF started
        THEN /\ use_serpapi' = (serpapi_key # None)                   \* line 274
             /\ gpc' = "loop"
             /\ UNCHANGED request_count
        ELSE /\ request_count' = Inc(request_count, "failure")        \* line 283
             /\ gpc' = "returned"
             /\ UNCHANGED use_serpapi
    /\ UNCHANGED <<script, max_pages, page_number, collected_papers, page_papers,
                   fetches, in_main, serpapi_key, duration_count, serve_sleeps,
                   semVars, arxVars, boVars, addVars, recVars>>

\* lines 185-200 and 215-230, 202-206 and 232-236: one pass of the loop over
\* range(self.max_pages), up to the sleep that ends it; after an exception the
\* handler runs and the pass is over
ScholarPage ==
    /\ script = "scholar" /\ gpc = "loop" /\ page_number < max_pages
    /\ \E fetched \in (IF SerpapiBranch THEN FetchedPagesSerpapi ELSE FetchedPages) :
        /\ fetches' = Append(fetches, [page |-> page_number, ok |-> fetched.ok])
        /\ IF fetched.raises
           THEN \* lines 232-236: the handler of the exception
                /\ request_count' = Inc(request_count, "failure")
                /\ page_number' = page_number + 1
                /\ UNCHANGED <<page_papers, collected_papers, duration_count, gpc>>
           ELSE /\ page_papers' = fetched.papers                        \* line 218
                /\ duration_count' = duration_count + 1                 \* line 220
                /\ request_count' =                                     \* lines 221-228
                       Inc(request_count,
                           IF fetched.papers = <<>> THEN "failure" ELSE "success")
                /\ collected_papers' = collected_papers \o fetched.papers   \* line 229
                /\ gpc' = "delay"
                /\ UNCHANGED page_number
    /\ UNCHANGED <<script, max_pages, in_main, serpapi_key, use_serpapi, serve_sleeps,
                   semVars, arxVars, boVars, addVars, recVars>>

\* lines 201 and 231: the sleep that ends a pass returns
ScholarDelay ==
    /\ script = "scholar" /\ gpc = "delay"
    /\ page_number' = page_number + 1
    /\ gpc' = "loop"
    /\ UNCHANGED <<script, max_pages, collected_papers, page_papers, fetches, in_main,
                   serpapi_key, use_serpapi, request_count, duration_count,
                   serve_sleeps, semVars, arxVars, boVars, addVars, recVars>>

\* lines 207-212 and 237-241: the loop is over; save_to_csv and return.  When
\* save_to_csv raises (line 123), scrape raises: in main the handler of lines
\* 281-285 runs and main returns 1
ScholarSave ==
    /\ script = "scholar" /\ gpc = "loop" /\ page_number >= max_pages
    /\ \E saved \in BOOLEAN :
        IF saved
        THEN gpc' = (IF in_main THEN "done" ELSE "returned") /\ UNCHANGED request_count
        ELSE IF in_main
        THEN gpc' = "returned" /\ request_count' = Inc(request_count, "failure")
        ELSE gpc' = "raised" /\ UNCHANGED request_count
    /\ UNCHANGED <<script, max_pages, page_number, collected_papers, page_papers,
                   fetches, in_main, serpapi_key, use_serpapi, duration_count,
                   serve_sleeps, semVars, arxVars, boVars, addVars, recVars>>

\* main, lines 276-286: scrape has returned
MainAfterScrape ==
    /\ script = "scholar" /\ gpc = "done"
    /\ request_count' = Inc(request_count, "success")                 \* line 277
    /\ duration_count' = duration_count + 1                           \* line 278
    /\ gpc' = "serving"
    /\ UNCHANGED <<script, max_pages, page_number, collected_papers, page_papers,
                   fetches, in_main, serpapi_key, use_serpapi, serve_sleeps,
                   semVars, arxVars, boVars, addVars, recVars>>

\* main, lines 289-291: while True: time.sleep(10)
ServeSleep ==
    /\ script = "scholar" /\ gpc = "serving"
    /\ serve_sleeps' = (serve_sleeps + 1) % 2
    /\ UNCHANGED <<script, max_pages, page_number, collected_papers, page_papers,
                   fetches, in_main, serpapi_key, use_serpapi, request_count,
                   duration_count, gpc, semVars, arxVars, boVars, addVars, recVars>>

\* A pass of the loop that an exception ends before its sleep: the call of line
\* 218 (188) was made and answered with fetched, and of the statements that follow
\* it and change the state, the first k were executed.  When the call returned:
\* the assignment of page_papers (line 218), observe (line 220), inc (lines 223,
\* 227); after the fourth, extend (line 229), the pass is in its sleep.  When the
\* call raised: the inc of the handler (line 235), and then line 236
PassBegun(fetched, k) ==
    /\ fetches' = Append(fetches, [page |-> page_number, ok |-> fetched.ok])
    /\ IF fetched.raises
       THEN /\ request_count' =
                   (IF k >= 1 THEN Inc(request_count, "failure") ELSE request_count)
            /\ UNCHANGED <<page_papers, duration_count>>
       ELSE /\ page_papers' = (IF k >= 1 THEN fetched.papers ELSE page_papers)
            /\ duration_count' = (IF k >= 2 THEN duration_count + 1 ELSE duration_count)
            /\ request_count' =
                   (IF k >= 3
                    THEN Inc(request_count,
                             IF fetched.papers = <<>> THEN "failure" ELSE "success")
                    ELSE request_count)

\* main is where an exception takes it to the handler of lines 281-285:
\* start_http_server raises (line 271), or save_to_csv does at the end of scrape
MainHandlerNext ==
    \/ gpc = "main"
    \/ gpc = "loop" /\ page_number >= max_pages /\ in_main

\* The user interrupts the program (KeyboardInterrupt), between any two
\* statements.  In the loop of lines 289-291 the handler of lines 292-294 makes
\* main return 0.  Anywhere else no handler catches it (lines 169, 202, 232 and
\* 281 catch Exception) and the program ends where it is:
\*   - before a statement that changes the state (waiting for the response, in a
\*     sleep, in a handler before its inc), or in the handler of lines 292-294;
\*   - in a pass of scrape, the call answered, after any of the statements that
\*     follow it, or of its handler when the call raised;
\*   - in main after the inc of line 277, or after the observe of line 278 (lines
\*     279, 280 and 286 are outside the try of line 289);
\*   - in the handler of lines 281-285 after the inc of line 283
Interrupt ==
    /\ script = "scholar"
    /\ \/ /\ gpc = "serving" /\ gpc' = "returned"
          /\ UNCHANGED <<fetches, page_papers, request_count, duration_count>>
       \/ /\ gpc \in {"main", "loop", "delay", "done", "serving"}
          /\ gpc' = "interrupted"
          /\ UNCHANGED <<fetches, page_papers, request_count, duration_count>>
       \/ /\ gpc = "loop" /\ page_number < max_pages
          /\ \E fetched \in (IF SerpapiBranch THEN FetchedPagesSerpapi ELSE FetchedPages) :
               \E k \in 0..3 : (fetched.raises => k <= 1) /\ PassBegun(fetched, k)
          /\ gpc' = "interrupted"
       \/ /\ gpc = "done" /\ gpc' = "interrupted"
          /\ request_count' = Inc(request_count, "success")           \* line 277
          /\ \E observed \in BOOLEAN :                                \* line 278
               duration_count' = (IF observed THEN duration_count + 1
                                  ELSE duration_count)
          /\ UNCHANGED <<fetches, page_papers>>
       \/ /\ MainHandlerNext /\ gpc' = "interrupted"
          /\ request_count' = Inc(request_count, "failure")           \* line 283
          /\ UNCHANGED <<fetches, page_papers, duration_count>>
    /\ UNCHANGED <<script, max_pages, page_number, collected_papers, in_main,
                   serpapi_key, use_serpapi, serve_sleeps, semVars, arxVars, boVars,
                   addVars, recVars>>

NoRequests == [label \in {"success", "failure"} |-> 0]

\* main is started with --pages and a SerpApi key from --serpapi or the
\* environment (line 273); or scrape is called with its arguments
InitScholar ==
    /\ max_pages \in 0..MaxPagesArg
    /\ in_main \in BOOLEAN
    /\ serpapi_key \in SerpapiKeys
    /\ IF in_main THEN gpc = "main" /\ use_serpapi = FALSE
       ELSE gpc = "loop" /\ use_serpapi \in BOOLEAN
    /\ page_number = 0 /\ collected_papers = <<>> /\ page_papers = <<>>
    /\ fetches = <<>> /\ request_count = NoRequests /\ duration_count = 0
    /\ serve_sleeps = 0

IdleScholar ==
    /\ max_pages = 0 /\ page_number = 0 /\ collected_papers = <<>> /\ page_papers = <<>>
    /\ fetches = <<>> /\ gpc = "idle"
    /\ in_main = FALSE /\ serpapi_key = None
    /\ use_serpapi = FALSE /\ request_count = NoRequests /\ duration_count = 0
    /\ serve_sleeps = 0

(***************************************************************************)
(* The filters that decide which items of a response enter an accumulator, *)
(* applied to items of every shape: line 88 with line 95 of                *)
(* fetch_paper_ids, and line 173 of fetch_metadata_batch.                  *)
(***************************************************************************)
\* The shapes of an item: a paper with an id, a paper without the key "paperId",
\* a paper whose "paperId" is null (as an item of "data") or a null item (as an
\* entry of a batch response), a paper whose "paperId" is the empty string
Items == Ids \cup {NoKey, None, Empty}

\* lines 85-95: a page of data is merged into query_ids
MergeData ==
    /\ script = "filters"
    /\ \E d \in SUBSET Items :
        /\ rdata' = d
        /\ rids' = PySetUpdate(rids, IdsPage(d))
    /\ UNCHANGED <<script, rpapers, rvalid, semVars, arxVars, gsVars, boVars, addVars>>

\* lines 169-173: the papers of a batch response are filtered
FilterPapers ==
    /\ script = "filters"
    /\ \E p \in SeqsUpTo(Items, BatchSize) :
        /\ rpapers' = p
        /\ rvalid' = ValidPapers(p)
    /\ UNCHANGED <<script, rdata, rids, semVars, arxVars, gsVars, boVars, addVars>>

InitFilters == rdata = {} /\ rids = PySet /\ rpapers = <<>> /\ rvalid = <<>>
IdleFilters == InitFilters

InitSemantic ==
    /\ max_retries \in 0..MaxRetries
    /\ total_limit_per_query \in 0..MaxLimit
    /\ initial_delay \in InitialDelays
    /\ nQueries \in QueryCounts
    /\ qi = 1
    /\ all_unique_paper_ids = PySet
    /\ current_query_ids = PySet
    /\ spc = "call"
    /\ query_ids = PySet /\ next_token = None /\ attempt = 0
    /\ ids_page = {} /\ new_ids_count = 0 /\ firstPage = TRUE /\ repeats = 0
    /\ ok_token = None /\ sent_ok_token = TRUE
    /\ fend = "running" /\ pageKinds = {} /\ pageReqs = 0 /\ sleeps = <<>>
    /\ paper_ids_list = <<>> /\ bi = 0 /\ all_metadata = <<>> /\ skipped = {}

IdleSemantic ==
    /\ max_retries = 0 /\ total_limit_per_query = 0 /\ initial_delay = 0
    /\ nQueries = 1 /\ qi = 1
    /\ all_unique_paper_ids = PySet /\ current_query_ids = PySet
    /\ spc = "idle"
    /\ query_ids = PySet /\ next_token = None /\ attempt = 0
    /\ ids_page = {} /\ new_ids_count = 0 /\ firstPage = TRUE /\ repeats = 0
    /\ ok_token = None /\ sent_ok_token = TRUE
    /\ fend = "running" /\ pageKinds = {} /\ pageReqs = 0 /\ sleeps = <<>>
    /\ paper_ids_list = <<>> /\ bi = 0 /\ all_metadata = <<>> /\ skipped = {}

InitBackoff ==
    /\ bAttempt = 0 /\ bDelay = 0 /\ bPrev = 0
    /\ bBase \in 0..MaxBase
    /\ bMax \in (0..MaxCap) \cup {DefaultMaxDelay}

IdleBackoff == bAttempt = 0 /\ bDelay = 0 /\ bPrev = 0 /\ bBase = 0 /\ bMax = 0

\* A run of one script: the others stay as they are
RunSemantic ==
    script = "semantic" /\ InitSemantic /\ IdleArxiv /\ IdleScholar /\ IdleBackoff
    /\ IdleAddPapers /\ IdleFilters
RunArxiv ==
    script = "arxiv" /\ IdleSemantic /\ InitArxiv /\ IdleScholar /\ IdleBackoff
    /\ IdleAddPapers /\ IdleFilters
RunScholar ==
    script = "scholar" /\ IdleSemantic /\ IdleArxiv /\ InitScholar /\ IdleBackoff
    /\ IdleAddPapers /\ IdleFilters
RunBackoff ==
    script = "backoff" /\ IdleSemantic /\ IdleArxiv /\ IdleScholar /\ InitBackoff
    /\ IdleAddPapers /\ IdleFilters
RunAddPapers ==
    script = "add_papers" /\ IdleSemantic /\ IdleArxiv /\ IdleScholar /\ IdleBackoff
    /\ InitAddPapers /\ IdleFilters
RunFilters ==
    script = "filters" /\ IdleSemantic /\ IdleArxiv /\ IdleScholar /\ IdleBackoff
    /\ IdleAddPapers /\ InitFilters

Init == RunSemantic \/ RunArxiv \/ RunScholar \/ RunBackoff \/ RunAddPapers \/ RunFilters

JobStep(j) == TakeJob(j) \/ StartJob(j) \/ FetchPage(j) \/ Delay(j)
ScrapeStep == (\E j \in Jobs : Submit(j) \/ Collect(j)) \/ CancelFutures \/ Finish

Next ==
    \/ CallFetch \/ Request \/ Return \/ CallMetadata \/ BatchRequest
    \/ Fetch \/ Scrape
    \/ \E j \in Jobs : JobStep(j)
    \/ ScrapeStep
    \/ MainStart \/ ScholarPage \/ ScholarDelay \/ ScholarSave \/ MainAfterScrape
    \/ ServeSleep \/ Interrupt
    \/ Backoff
    \/ \E t \in Callers : AddPapersStep(t)
    \/ MergeData \/ FilterPapers

Spec == Init /\ [][Next]_vars

\* One script at a time
NextSemantic == CallFetch \/ Request \/ Return \/ CallMetadata \/ BatchRequest
SpecSemantic == RunSemantic /\ [][NextSemantic]_vars

\* The script is one thread, which runs as long as it has a step to make
FairSemantic == SpecSemantic /\ WF_vars(NextSemantic)

NextArxiv == Fetch \/ Scrape \/ (\E j \in Jobs : JobStep(j)) \/ ScrapeStep
SpecArxiv == RunArxiv /\ [][NextArxiv]_vars

NextScholar ==
    \/ MainStart \/ ScholarPage \/ ScholarDelay \/ ScholarSave \/ MainAfterScrape
    \/ ServeSleep \/ Interrupt
SpecScholar == RunScholar /\ [][NextScholar]_vars

\* The script is one thread, which runs as long as it has a step to make; nothing
\* promises that the user ever interrupts it
MainStep ==
    \/ MainStart \/ ScholarPage \/ ScholarDelay \/ ScholarSave \/ MainAfterScrape
    \/ ServeSleep
FairScholar == SpecScholar /\ WF_vars(MainStep)

\* The worker threads and the thread running scrape are scheduled fairly; main
\* calls scrape once (line 235), nothing promises another call, nor one of fetch
FairArxiv ==
    /\ SpecArxiv
    /\ \A j \in Jobs : WF_vars(JobStep(j))
    /\ WF_vars((scrapes = 0 /\ Scrape) \/ ScrapeStep)

SpecBackoff == RunBackoff /\ [][Backoff]_vars

NextAddPapers == \E t \in Callers : AddPapersStep(t)
SpecAddPapers == RunAddPapers /\ [][NextAddPapers]_vars

NextFilters == MergeData \/ FilterPapers
SpecFilters == RunFilters /\ [][NextFilters]_vars

\* The two scripts that split their work into partitions (queries, year jobs)
RunPartitions == RunSemantic \/ RunArxiv
NextPartitions == NextSemantic \/ NextArxiv
SpecPartitions == RunPartitions /\ [][NextPartitions]_vars

(***************************************************************************)
(* The claims.                                                             *)
(***************************************************************************)
\* No element is twice in the sequence
NoDup(seq) == \A i, k \in DOMAIN seq : seq[i] = seq[k] => i = k

\* fetch_paper_ids is running; it has returned after at least one request
InFetch == script = "semantic" /\ spc \in {"request", "return"}
Fetched == script = "semantic" /\ spc \in {"call", "meta_call"} /\ pageReqs > 0

\* C1: when every request of the current page of fetch_paper_ids failed with a
\* transient error, the page is requested again while fewer than max_retries
\* requests were made, never more than max_retries times, and after the
\* max_retries-th failure the function is at its return statement, abandoned.
C1_TransientAbandonsAfterMaxRetries ==
    (InFetch /\ pageKinds = {"transient"}) =>
        /\ pageReqs <= max_retries
        /\ pageReqs < max_retries => spc = "request"
        /\ pageReqs = max_retries => spc = "return" /\ fend = "abandoned"

C1_Witness ==
    /\ InFetch /\ pageKinds = {"transient"} /\ ~firstPage
    /\ max_retries = 3 /\ pageReqs = 3 /\ spc = "return" /\ fend = "abandoned"

\* C2: a fatal response (4xx other than 429) to the first request of a page makes
\* fetch_paper_ids stop at once: no backoff sleep and no second request.
C2_FatalAbandonsAtOnce ==
    (InFetch /\ pageKinds = {"fatal"}) =>
        /\ pageReqs = 1 /\ sleeps = <<>>
        /\ spc = "return" /\ fend = "abandoned"

\* C3 for fetch_paper_ids: it never stops on a page whose responses were all 429.
C3_PageNotAbandoned ==
    ~(InFetch /\ spc = "return" /\ pageKinds = {"rate_limited"})

\* C3 for fetch_metadata_batch: no batch whose responses were all 429 is given up
\* (the histories are those of batch bi - 1 once the loop has moved on).
C3_BatchNotAbandoned ==
    ~(/\ script = "semantic" /\ spc \in {"batch_request", "done"}
      /\ pageKinds = {"rate_limited"}
      /\ (attempt = 0 \/ spc = "done")
      /\ (bi - 1) \in skipped)

\* C3: a page or a batch that only ever met rate-limit responses (429) is retried
\* and never abandoned.
C3_RateLimitedNeverAbandoned == C3_PageNotAbandoned /\ C3_BatchNotAbandoned

\* C4: for attempt >= 1 the delay of exponential_backoff_sleep is
\* min(max_delay, base_delay * 2^(attempt-1)); it never exceeds max_delay, never
\* decreases from one attempt to the next, and is base_delay at attempt 1 and
\* twice the delay of the attempt before, capped at max_delay, afterwards.
C4_BackoffCappedMonotone ==
    (script = "backoff" /\ bAttempt >= 1) =>
        /\ bDelay = Min(bMax, bBase * 2^(bAttempt - 1))
        /\ bDelay <= bMax
        /\ bDelay >= bPrev
        /\ bDelay = Min(bMax, IF bAttempt = 1 THEN bBase ELSE 2 * bPrev)

C4_Witness ==
    /\ script = "backoff" /\ bAttempt >= 2 /\ bMax = DefaultMaxDelay
    /\ bDelay = DefaultMaxDelay /\ bPrev < bDelay

\* The first page of a query was answered 429, 429 and then with success
RateLimitedTwiceThenOk ==
    firstPage /\ pageReqs = 3 /\ pageKinds = {"rate_limited", "ok"}

\* C5: when the first page of a query is answered 429, 429, success, the sleeps
\* before the second and the third request are the backoff delays of attempt 1 and
\* of attempt 2 (min(60, initial_delay) and min(60, 2 * initial_delay)), any later
\* sleep is the pause after the success, and when fetch_paper_ids returns after
\* that page its result holds ids of that page only, all of them or
\* total_limit_per_query of them.
C5_BackoffThenResult ==
    /\ (InFetch /\ RateLimitedTwiceThenOk) =>
          /\ Len(sleeps) \in {2, 3}
          /\ sleeps[1] = [kind |-> "backoff", dur |-> Min(DefaultMaxDelay, initial_delay)]
          /\ sleeps[2] = [kind |-> "backoff",
                          dur |-> Min(DefaultMaxDelay, 2 * initial_delay)]
          /\ Len(sleeps) = 3 => sleeps[3] = [kind |-> "pace", dur |-> initial_delay]
    /\ (Fetched /\ RateLimitedTwiceThenOk) =>
          /\ BagToSet(current_query_ids) \subseteq ids_page
          /\ PyLen(current_query_ids) = Min(total_limit_per_query, Cardinality(ids_page))

C5_Witness ==
    /\ Fetched /\ RateLimitedTwiceThenOk /\ initial_delay = 25
    /\ Cardinality(ids_page) = 2 /\ PyLen(current_query_ids) = 1

\* A year job can still fetch pages: its fetch_year has not returned
Unconsumed(j) == fstate[j] \in {"pending", "running", "cancelled"}

\* C6: with feeds that return full pages of new entries for ever and fewer workers
\* than year jobs, scrape ends with exactly max_results records, none twice, and
\* some year job with pages left.
C6_EndlessFeedTerminates ==
    (script = "arxiv" /\ endless /\ max_workers < NJobs) =>
        <>(/\ apc = "done"
           /\ Len(collected) = max_results
           /\ NoDup(collected)
           /\ \E j \in Jobs : Unconsumed(j))

\* scrape has seen the number of merged records reach max_results
TargetReached ==
    script = "arxiv" /\ apc \in {"cancel", "shutdown", "done"}
    /\ total_papers >= max_results

\* C7: once scrape has seen the merged records reach max_results, no year job
\* starts, and no running year job goes from the pause after a page to the
\* request for the next one (the request it was in may still be answered).
C7_NoFetchAfterTarget ==
    [][TargetReached =>
          \A j \in Jobs :
              /\ ~(fstate[j] = "pending" /\ fstate'[j] = "running")
              /\ ~(fstate[j] = "running" /\ jpc[j] = "delay"
                   /\ jpc'[j] = "request")]_vars

\* C8: when scrape is done, every year job that was running when the target was
\* reached and has returned records since had them merged into collected: its
\* future went through lines 174-176.
C8_InFlightMerged ==
    (script = "arxiv" /\ apc = "done") =>
        \A j \in inflight :
            (fstate[j] = "finished" /\ year_papers[j] # <<>>) => j \in yielded

\* A bag that is a Python set: no element twice
IsPySet(s) == \A e \in BagToSet(s) : CopiesIn(e, s) = 1

\* Every id is at most once in the ids of a query, in what fetch_paper_ids
\* returns, in the ids of all queries and in the list fetch_metadata_batch walks,
\* which holds exactly the ids of all queries
IdsUnique ==
    script = "semantic" =>
        /\ IsPySet(query_ids) /\ IsPySet(current_query_ids)
        /\ IsPySet(all_unique_paper_ids)
        /\ spc = "batch_request" =>
              /\ NoDup(paper_ids_list)
              /\ {paper_ids_list[k] : k \in DOMAIN paper_ids_list}
                     = BagToSet(all_unique_paper_ids)
              /\ Len(paper_ids_list) = PyLen(all_unique_paper_ids)

\* A step of fetch_paper_ids that merges a page into query_ids (line 95)
MergesPage ==
    /\ script = "semantic" /\ spc = "request"
    /\ "ok" \in pageKinds' /\ ~(ids_page' = {} /\ next_token' = None)

\* A step of main that merges the ids of a query into those of all queries (line 284)
MergesQuery == script = "semantic" /\ spc = "return"

\* C9: every id is at most once in the collection main hands to
\* fetch_metadata_batch and in the collections it is made from; merging a page
\* makes the ids of the query grow by the number of ids of the page not seen
\* before in the query, and merging a query makes the ids of all queries grow by
\* the number of its ids not seen in an earlier query: ids seen before add nothing.
C9_IdsUnique ==
    /\ []IdsUnique
    /\ [][MergesPage =>
             PyLen(query_ids') = PyLen(query_ids) + new_ids_count']_vars
    /\ [][MergesQuery =>
             PyLen(all_unique_paper_ids') = PyLen(all_unique_paper_ids)
                 + Cardinality(BagToSet(current_query_ids')
                                   \ BagToSet(all_unique_paper_ids))]_vars

\* a page with two ids, one of them seen before in the query, was merged
C9_Witness ==
    /\ InFetch /\ "ok" \in pageKinds /\ ~firstPage
    /\ Cardinality(ids_page) = 2 /\ new_ids_count = 1
    /\ PyLen(query_ids) = 2

\* The last response to the current page of fetch_paper_ids was a success
LastOk == InFetch /\ "ok" \in pageKinds

\* C12: after a successful response without a continuation token fetch_paper_ids
\* is at its return statement with the ids of that page among the ids of the
\* query; after a successful response with a token and the target not reached it
\* is about to request the next page; and it leaves its loops as "exhausted" only
\* after a successful response without a token.
C12_StopsWhenNoToken ==
    /\ (LastOk /\ next_token = None) =>
          spc = "return" /\ ids_page \subseteq BagToSet(query_ids)
    /\ (LastOk /\ next_token # None /\ PyLen(query_ids) < total_limit_per_query) =>
          spc = "request" /\ attempt = 0
    /\ (InFetch /\ fend = "exhausted") => LastOk /\ next_token = None

\* the second page of a query came without a token and with an id that was merged
C12_Witness ==
    /\ LastOk /\ ~firstPage /\ next_token = None /\ fend = "exhausted"
    /\ ids_page # {} /\ PyLen(query_ids) = 1 /\ total_limit_per_query = 2

\* C13: fetch_year requests start = 0, batch_size, 2 * batch_size, ... in this
\* order; while it runs every page it got was full and is in year_papers; when it
\* has returned, the last page it got was not full, so that after k full pages it
\* made k + 1 requests; and when the feed served no entry twice, year_papers is
\* the head of the feed, in the order of the feed.
C13_OffsetsUntilShortPage ==
    script = "arxiv" =>
        \A j \in Jobs :
            /\ \A i \in DOMAIN offsets[j] : offsets[j][i] = (i - 1) * PageSize
            /\ fstate[j] = "running" =>
                  Len(year_papers[j]) = Len(offsets[j]) * PageSize
            /\ fstate[j] = "finished" =>
                  /\ Len(offsets[j]) = (Len(year_papers[j]) \div PageSize) + 1
                  /\ NoDup(year_papers[j]) =>
                        year_papers[j] = Page(j, 0, Len(year_papers[j]))

\* a year job got one full page and then a page with one entry, and returned
C13_Witness ==
    /\ script = "arxiv" /\ ~endless
    /\ \E j \in Jobs :
          /\ fstate[j] = "finished"
          /\ offsets[j] = <<0, PageSize>>
          /\ year_papers[j] = Page(j, 0, PageSize + 1)

\* C14: scrape of GoogleScholarScraperRequests goes on to the next page (the
\* offset page_number * 10 grows) only when the page before it came back full:
\* after a page with no result or with fewer than a full page of results no
\* further page is requested.
C14_AdvanceOnlyAfterFullPage ==
    [][(script = "scholar" /\ page_number > 0 /\ Len(fetches') > Len(fetches)) =>
          Len(page_papers) = ResultsPerPage]_vars

\* C15 for fetch_paper_ids: once a page has had max_retries requests and none
\* succeeded, the function is at its return statement.
C15_PageExhaustedStops ==
    (InFetch /\ pageReqs = max_retries /\ "ok" \notin pageKinds) => spc = "return"

\* C15 for fetch_metadata_batch: once a batch was given up, no request is made.
C15_BatchExhaustedStops ==
    ~(script = "semantic" /\ spc = "batch_request" /\ skipped # {})

\* C15: when a page or a batch has used up its retries, no request is made for a
\* later page or batch of the same job.
C15_ExhaustedJobAbandoned == C15_PageExhaustedStops /\ C15_BatchExhaustedStops

\* fetch_paper_ids has returned to main after giving up a page
ReturnedAbandoned ==
    script = "semantic" /\ spc \in {"call", "meta_call"} /\ fend = "abandoned"

\* C16: what fetch_paper_ids returns after giving up a page is the ids of the
\* pages merged before (they are fewer than the target, so none is cut); and when
\* fetch_year returns on a status other than 200, year_papers holds the full
\* pages it got before, in the order of the feed when the feed served no entry
\* twice.
C16_PartialResultKept ==
    /\ ReturnedAbandoned => current_query_ids = query_ids
    /\ script = "arxiv" =>
          \A j \in Jobs :
              (fstate[j] = "finished" /\ feed_status[j] \notin {None, 200}) =>
                  /\ Len(year_papers[j]) = (Len(offsets[j]) - 1) * PageSize
                  /\ NoDup(year_papers[j]) =>
                        year_papers[j] = Page(j, 0, Len(year_papers[j]))

\* the second page of the second query was given up with one id merged before; a
\* year job got a status other than 200 after a full page
C16_Witness ==
    \/ /\ ReturnedAbandoned /\ ~firstPage /\ qi = 2 /\ spc = "meta_call"
       /\ PyLen(current_query_ids) = 1 /\ total_limit_per_query = 2
    \/ /\ script = "arxiv"
       /\ \E j \in Jobs : /\ fstate[j] = "finished" /\ feed_status[j] = 503
                           /\ year_papers[j] = Page(j, 0, PageSize)

\* C18: what fetch_paper_ids returned holds at most total_limit_per_query ids, and
\* when scrape returns collected holds at most max_results papers, max_results
\* being what self.max_results is when lines 186-188 cut collected.
C18_ResultWithinTarget ==
    /\ [](script = "semantic" => PyLen(current_query_ids) <= total_limit_per_query)
    /\ [][(script = "arxiv" /\ apc # "done" /\ apc' = "done") =>
            Len(collected') <= max_results]_vars

\* the last page took the ids of the query past the target and as many ids as the
\* target were returned; or the year jobs brought more papers than max_results
\* and collected was cut to max_results
C18_Witness ==
    \/ /\ script = "semantic" /\ spc \in {"call", "meta_call"} /\ fend = "target"
       /\ PyLen(query_ids) > total_limit_per_query
       /\ PyLen(current_query_ids) = total_limit_per_query
    \/ /\ script = "arxiv" /\ apc = "done"
       /\ total_papers > max_results /\ Len(collected) = max_results

\* C19 for fetch_paper_ids: no id of the set is null or the empty string.
C19_IdsHaveIdentity ==
    /\ BagToSet(rids) \subseteq Ids
    /\ script = "semantic" => BagToSet(query_ids) \subseteq Ids

\* C19 for fetch_metadata_batch: every item kept is a paper with an id.
C19_MetadataHasIdentity ==
    /\ \A k \in DOMAIN rvalid : rvalid[k] \in Ids
    /\ script = "semantic" => \A k \in DOMAIN all_metadata : all_metadata[k] \in Ids

\* C19: no item with a null, empty or missing "paperId" enters the set of ids of
\* fetch_paper_ids or the metadata kept by fetch_metadata_batch.
C19_NoEmptyIdentity == C19_IdsHaveIdentity /\ C19_MetadataHasIdentity

\* fetch_paper_ids is about to request a page after the page before it was
\* answered with success at the first request, with the ids P, none of them new,
\* and a continuation token
SamePageAgain(P) ==
    /\ script = "semantic" /\ spc = "request" /\ attempt = 0
    /\ pageKinds = {"ok"} /\ ids_page = P /\ new_ids_count = 0
    /\ next_token # None

\* C20: fetch_paper_ids does not stay for ever in its loop when every request is
\* answered with success, the same ids and a continuation token: it comes to its
\* return statement.
C20_IdenticalPagesTerminate ==
    \A P \in SUBSET Ids :
        <>[]SamePageAgain(P) => <>(script = "semantic" /\ spc = "return")

\* every paper of seq is in coll
AllIn(seq, coll) == \A k \in DOMAIN seq : \E i \in DOMAIN coll : coll[i] = seq[k]

\* a year job failed: it raised, or returned on a status other than 200
Failed(j) == fstate[j] = "raised" \/ (fstate[j] = "finished" /\ feed_status[j] # 200)

\* main is at the return of a fetch_paper_ids that gave up, with queries left
AbandonedWithQueriesLeft ==
    script = "semantic" /\ spc = "return" /\ fend = "abandoned" /\ qi < nQueries

\* while scrape submits the year jobs and waits for their futures, none of them
\* is cancelled
SiblingJobsRun ==
    (script = "arxiv" /\ apc \in {"submit", "wait"}) =>
        \A j \in Jobs : fstate[j] # "cancelled"

\* C17: after a query was given up main keeps the ids it has and calls
\* fetch_paper_ids for the next query; and a year job that failed or raised
\* neither stops the other year jobs nor keeps their papers out of collected:
\* no future is cancelled while scrape waits for futures; a future is cancelled
\* only by the loop of lines 180-181, which scrape enters only at a step that
\* finds total_papers at or over the max_results it reads (line 179); scrape
\* leaves the loop over as_completed otherwise only when every year job has run
\* and been handed over; the step that takes the future of a failed job changes
\* no future and none of the papers collected; and the step that takes the future
\* of another job appends its papers (lines 175-176).
C17_SiblingsNotAborted ==
    /\ [][AbandonedWithQueriesLeft =>
            /\ spc' = "call" /\ qi' = qi + 1
            /\ all_unique_paper_ids' = PySetUpdate(all_unique_paper_ids,
                                                   BagToSet(query_ids))]_vars
    /\ []SiblingJobsRun
    /\ [][\A j \in Jobs :
            (script = "arxiv" /\ fstate[j] # "cancelled" /\ fstate'[j] = "cancelled") =>
                apc = "cancel"]_vars
    /\ [][(script = "arxiv" /\ apc # "cancel" /\ apc' = "cancel") =>
            /\ apc = "wait" /\ max_results' = max_results
            /\ total_papers' >= max_results]_vars
    /\ [][(script = "arxiv" /\ apc = "wait" /\ apc' = "shutdown") =>
            /\ yielded' = Jobs
            /\ \A j \in Jobs : fstate'[j] \in {"finished", "raised"}]_vars
    /\ [][\A j \in Jobs :
            (script = "arxiv" /\ apc = "wait" /\ Failed(j) /\ j \in yielded' \ yielded) =>
                /\ apc' = "cancel" => total_papers' >= max_results
                /\ fstate' = fstate
                /\ \A k \in DOMAIN collected : collected'[k] = collected[k]]_vars
    /\ [][\A j \in Jobs :
            (script = "arxiv" /\ apc = "wait" /\ ~Failed(j) /\ j \in yielded' \ yielded) =>
                collected' = collected \o year_papers[j]]_vars

\* the first query was given up and main is about to call fetch_paper_ids for the
\* second; or, with one worker, the first year job raised and the papers of the
\* second, which ran after it, are what scrape collected
C17_Witness ==
    \/ script = "semantic" /\ spc = "call" /\ qi = 2 /\ fend = "abandoned"
    \/ /\ script = "arxiv" /\ apc = "done" /\ max_workers = 1
       /\ fstate[1] = "raised" /\ fstate[2] = "finished"
       /\ year_papers[2] # <<>> /\ collected = year_papers[2]

\* The papers of caller t are in coll from position o + 1 on, in their order
ContiguousAt(coll, t, o) ==
    /\ o + Len(cargs[t]) <= Len(coll)
    /\ \A k \in DOMAIN cargs[t] : coll[o + k] = cargs[t][k]

\* C11: once a call of add_papers has returned, its papers are in collected, side
\* by side and in their order, whatever the other callers did meanwhile; and when
\* all calls have returned collected holds the papers of all calls and no more.
C11_AddPapersAtomic ==
    script = "add_papers" =>
        /\ \A t \in Callers :
              cpc[t] = "done" => \E o \in 0..Len(collected) : ContiguousAt(collected, t, o)
        /\ (\A t \in Callers : cpc[t] = "done") =>
              /\ \A t \in Callers : \A k \in DOMAIN cargs[t] :
                    Cardinality({i \in DOMAIN collected : collected[i] = cargs[t][k]}) = 1
              /\ \A i \in DOMAIN collected :
                    \E t \in Callers : \E k \in DOMAIN cargs[t] : collected[i] = cargs[t][k]

\* three calls of two papers each have returned, the second caller first
C11_Witness ==
    /\ script = "add_papers" /\ \A t \in Callers : cpc[t] = "done"
    /\ \A t \in Callers : Len(cargs[t]) = MaxArgs
    /\ Len(collected) = NCallers * MaxArgs
    /\ collected[1] = Entry(2, 1)

\* C21 for scrape of GoogleScholarScraperRequests: the request that follows a
\* failed fetch of a page is for the same page.
C21_ScholarPageRetried ==
    \A i \in 1..(Len(fetches) - 1) :
        ~fetches[i].ok => fetches[i + 1].page = fetches[i].page

\* C21 for fetch_year: a year job that has returned on a status other than 200 had
\* requested the failing offset more than once.
C21_YearPageRetried ==
    script = "arxiv" =>
        \A j \in Jobs :
            (fstate[j] = "finished" /\ feed_status[j] \notin {None, 200}) =>
                /\ Len(offsets[j]) >= 2
                /\ offsets[j][Len(offsets[j]) - 1] = offsets[j][Len(offsets[j])]

\* C21: a page whose fetch failed (a status other than 200, a network failure) is
\* requested again before fetch_year or scrape gives it up.
C21_FailedPageRetried == C21_ScholarPageRetried /\ C21_YearPageRetried

\* C22: at every moment at most max_workers year jobs are executing fetch_year.
C22_AtMostMaxWorkersRunning ==
    script = "arxiv" => Cardinality(Running) <= max_workers

\* every worker is busy while a year job waits in the queue of the executor
C22_Witness ==
    /\ script = "arxiv" /\ max_workers < NJobs
    /\ Cardinality(Running) = max_workers /\ Pending # {}

\* A request was made in this run and the script is on its way to the next one
\* with no sleep left on the way: at a request of fetch_paper_ids or of
\* fetch_metadata_batch, or in main before a call that will make a request
\* (pageReqs and sleeps are those of the page or batch requested last)
BetweenRequests ==
    /\ script = "semantic" /\ pageReqs > 0
    /\ \/ spc \in {"request", "batch_request"}
       \/ spc = "call" /\ 0 < total_limit_per_query /\ 0 < max_retries
       \/ spc = "meta_call" /\ all_unique_paper_ids # PySet /\ 0 < max_retries

\* C23: between two consecutive requests of a run there is a sleep of at least
\* initial_delay: the request made last was followed by a sleep (there are as
\* many sleeps as requests for its page) that lasted initial_delay or more.
C23_SleepBetweenRequests ==
    BetweenRequests =>
        /\ Len(sleeps) = pageReqs
        /\ sleeps[Len(sleeps)].dur >= initial_delay

\* The number of inc() of REQUEST_COUNT, all labels together
TotalRequestCount == request_count["success"] + request_count["failure"]

\* C24: over a run of Scrapex main, the number of increments of REQUEST_COUNT and
\* the number of observations of REQUEST_DURATION are both the number of page
\* fetch attempts.
C24_OneCountOneDurationPerFetch ==
    (script = "scholar" /\ gpc # "interrupted") =>
        /\ TotalRequestCount = Len(fetches)
        /\ duration_count = Len(fetches)

\* C30: once scrape has saved the CSV and returned, main returns or the program is
\* ended (the process of Scrapex.py ends, and main.py goes on to its cleaning
\* step).
C30_MainReturnsAfterScrape ==
    (script = "scholar" /\ gpc = "done") ~> (gpc \in {"returned", "interrupted"})

\* C25: what fetch_paper_ids returns is determined by the responses it got: at
\* its return statement, with the ids its pages brought, one result is possible.
C25_ResultDetermined ==
    (script = "semantic" /\ spc = "return") =>
        Cardinality(Truncations(query_ids, total_limit_per_query)) = 1

\* The query of fetch_paper_ids is over: the last response was a success without
\* a continuation token, or the page had max_retries requests and no success
QueryOver ==
    /\ InFetch /\ pageReqs > 0
    /\ \/ "ok" \in pageKinds /\ next_token = None
       \/ "ok" \notin pageKinds /\ pageReqs = max_retries

\* The future of year job j is done: fetch_year has returned or raised, or the
\* job was cancelled before it ran
JobOver(j) == fstate[j] \in {"finished", "raised", "cancelled"}

\* C26: once the query of fetch_paper_ids is over the function is at its return
\* statement, from where main goes on without a request for this query; a year
\* job that runs after a request got status 200 and a full page for every request
\* it made; and a year job that is over makes no request and stays over (a later
\* call of scrape makes new year jobs).
C26_OverIsTerminal ==
    /\ [](QueryOver => spc = "return")
    /\ [][(script = "semantic" /\ spc = "return") =>
            spc' \in {"call", "meta_call"} /\ pageReqs' = pageReqs]_vars
    /\ [](script = "arxiv" =>
            \A j \in Jobs :
                (fstate[j] = "running" /\ offsets[j] # <<>>) =>
                    /\ feed_status[j] = 200
                    /\ Len(year_papers[j]) = Len(offsets[j]) * PageSize)
    /\ [][(script = "arxiv" /\ scrapes' = scrapes) =>
            \A j \in Jobs :
                JobOver(j) => /\ fstate'[j] = fstate[j]
                              /\ offsets'[j] = offsets[j]
                              /\ year_papers'[j] = year_papers[j]]_vars

\* the second page of a query came without a token below the target, or used up
\* its retries; or a year job returned on a short page that followed a full one
\* while the other job goes on
C26_Witness ==
    \/ /\ QueryOver /\ ~firstPage /\ spc = "return"
       /\ PyLen(query_ids) < total_limit_per_query
    \/ /\ script = "arxiv"
       /\ \E j, k \in Jobs :
             /\ fstate[j] = "finished" /\ Len(offsets[j]) = 2 /\ feed_status[j] = 200
             /\ fstate[k] = "running" /\ offsets[k] # <<>>

\* C27: fetch_paper_ids is about to make a request only while the query has fewer
\* ids than total_limit_per_query; once it has that many it is at its return
\* statement, with every id of the last page merged; and with a target of 0 no
\* request is made in the run.
C27_NoRequestAtTarget ==
    script = "semantic" =>
        /\ spc = "request" => PyLen(query_ids) < total_limit_per_query
        /\ (InFetch /\ PyLen(query_ids) >= total_limit_per_query) =>
              spc = "return" /\ ids_page \subseteq BagToSet(query_ids)
        /\ total_limit_per_query = 0 => pageReqs = 0

\* the second page of a query brought two new ids and took the query past its
\* target: both were merged and the function is at its return statement
C27_Witness ==
    /\ script = "semantic" /\ spc = "return" /\ fend = "target" /\ ~firstPage
    /\ new_ids_count = 2 /\ PyLen(query_ids) > total_limit_per_query

\* C28: every request of fetch_paper_ids carried the token of the last successful
\* response of the query (none before the first); and a failed or rate-limited
\* attempt leaves next_token, the token the retry will carry, as it was.
C28_TokenCarriedVerbatim ==
    /\ [](InFetch => sent_ok_token)
    /\ [][(script = "semantic" /\ spc = "request" /\ "ok" \notin pageKinds') =>
            next_token' = next_token /\ ok_token' = ok_token]_vars

\* a page was requested with a token, the attempt failed, and the retry carried
\* the same token
C28_Witness ==
    /\ InFetch /\ ok_token # None /\ sent_ok_token /\ pageReqs >= 2
    /\ pageKinds \cap {"rate_limited", "transient"} # {}

\* attempt is a count of the requests of the current page, never past max_retries
C29_AttemptInRange ==
    script = "semantic" => attempt \in 0..max_retries

\* a successful response that leaves fetch_paper_ids about to request the next
\* page leaves attempt at 0
C29_ResetAfterMergedPage ==
    [][(script = "semantic" /\ spc = "request" /\ "ok" \in pageKinds'
            /\ spc' = "request") => attempt' = 0]_vars

\* C29: attempt stays within 0..max_retries, and fetch_paper_ids leaves its loops
\* as abandoned (lines 120-122) only when the last page it requested was never
\* answered successfully.
C29_AbandonedOnlyAfterFailedPage ==
    /\ C29_AttemptInRange
    /\ (InFetch /\ fend = "abandoned") => "ok" \notin pageKinds

\* C10: no record is twice in collected (ArxivScraper) nor in collected_papers
\* (GoogleScholarScraperRequests).
C10_CollectedUnique == NoDup(collected) /\ NoDup(collected_papers)

====
